---------------------------- MODULE Spec2Model ----------------------------
(***************************************************************************)
(* Employee-management data layer (operations.py over models.py).          *)
(*                                                                         *)
(* Every table of models.py is a set of rows; a row is a function from     *)
(* column names to values.  A dict argument (employee_data, leave_data,    *)
(* ...) is a function from the keys the caller supplied to their values,   *)
(* so that "key absent" and "key present" are different inputs.            *)
(* `last' records the last call: its name, its arguments, whether it       *)
(* raised, and what it returned.                                           *)
(***************************************************************************)
EXTENDS Integers, FiniteSets, Sequences, TLC

VARIABLES employees, departments, attendance, leaves, payroll, reviews, last,
          sessions

vars ==
    <<employees, departments, attendance, leaves, payroll, reviews, last,
      sessions>>

(***************************************************************************)
(* Bounds of the model.                                                    *)
(***************************************************************************)
MaxAttendance == 2

MaxLeaves == 2

MaxPayroll == 2

MaxReviews == 2

MaxEmployeeId == 2

MaxDepartmentId == 2

EmployeeIds == {1, 2}

(***************************************************************************)
(* Helpers shared by all operations.                                       *)
(***************************************************************************)
NoArgs == [k \in {} |-> 0]

Merge(f, g) ==
    [k \in DOMAIN f \cup DOMAIN g |-> IF k \in DOMAIN f THEN f[k] ELSE g[k]]

setattrs_resetting(obj, data) ==
    [k \in DOMAIN obj \cup DOMAIN data |->
        IF k \in DOMAIN data THEN data[k]
        ELSE IF k \in {"hours_worked", "budget", "salary"} THEN 0
        ELSE obj[k]]

\* for key, value in data.items(): setattr(obj, key, value)
setattrs(obj, data) ==
    [k \in DOMAIN obj \cup DOMAIN data |-> IF k \in DOMAIN data THEN data[k] ELSE obj[k]]

MaxOf(S) == CHOOSE x \in S : \A y \in S : y <= x

\* Integer primary key of a SQLite table: the largest stored id plus one.
next_id(ids) == IF ids = {} THEN 1 ELSE MaxOf(ids) + 1

RECURSIVE SumOver(_, _)
SumOver(S, key) ==
    IF S = {} THEN 0
    ELSE LET r == CHOOSE r \in S : TRUE IN r[key] + SumOver(S \ {r}, key)

\* A nullable column holds the empty set (NULL) or the set of its one value.
Null == {}

Some(x) == {x}

Returned(op, args, result) ==
    [op |-> op, args |-> args, raised |-> FALSE, result |-> result]

Raised(op, args, error) ==
    [op |-> op, args |-> args, raised |-> TRUE, result |-> error]

(***************************************************************************)
(* datetime.date: a date is its ordinal, counted from 2023-01-01 = 1.      *)
(***************************************************************************)
is_leap(y) == (y % 4 = 0) /\ ((y % 100 # 0) \/ (y % 400 = 0))

days_in_month(y, m) ==
    IF m = 2 THEN (IF is_leap(y) THEN 29 ELSE 28)
    ELSE IF m \in {4, 6, 9, 11} THEN 30 ELSE 31

RECURSIVE days_before_month(_, _)
days_before_month(y, m) ==
    IF m = 1 THEN 0 ELSE days_before_month(y, m - 1) + days_in_month(y, m - 1)

RECURSIVE days_before_year(_)
days_before_year(y) ==
    IF y <= 2023 THEN 0
    ELSE days_before_year(y - 1) + (IF is_leap(y - 1) THEN 366 ELSE 365)

date(y, m, d) == days_before_year(y) + days_before_month(y, m) + d

(***************************************************************************)
(* Text: lower-casing and substring search, as ilike('%...%') needs them.  *)
(***************************************************************************)
UpperCase == "ABCDEFGHIJKLMNOPQRSTUVWXYZ"

LowerCase == "abcdefghijklmnopqrstuvwxyz"

lower_char(c) ==
    IF \E i \in 1..Len(UpperCase) : SubSeq(UpperCase, i, i) = c
    THEN LET i == CHOOSE i \in 1..Len(UpperCase) : SubSeq(UpperCase, i, i) = c
         IN SubSeq(LowerCase, i, i)
    ELSE c

RECURSIVE lower(_)
lower(s) ==
    IF Len(s) = 0 THEN ""
    ELSE lower_char(SubSeq(s, 1, 1)) \o lower(SubSeq(s, 2, Len(s)))

contains(s, t) ==
    \E i \in 1..(Len(s) - Len(t) + 1) : SubSeq(s, i, i + Len(t) - 1) = t

\* text LIKE pattern in SQLite: % stands for any run of characters and _ for
\* any one character; no ESCAPE is given, so both always act as wildcards.
RECURSIVE like(_, _)
like(text, pattern) ==
    IF Len(pattern) = 0 THEN Len(text) = 0
    ELSE LET p == SubSeq(pattern, 1, 1)
             rest == SubSeq(pattern, 2, Len(pattern))
         IN IF p = "%"
            THEN \E i \in 0..Len(text) : like(SubSeq(text, i + 1, Len(text)), rest)
            ELSE /\ Len(text) > 0
                 /\ p = "_" \/ p = SubSeq(text, 1, 1)
                 /\ like(SubSeq(text, 2, Len(text)), rest)

\* column.ilike(f"%{pattern}%") on a nullable text column: SQLAlchemy renders
\* lower(column) LIKE lower('%pattern%'), never true of NULL.
ilike(column, pattern) ==
    \E text \in column : like(lower(text), lower("%" \o pattern \o "%"))

(***************************************************************************)
(* EmployeeOperations                                                      *)
(***************************************************************************)
Emails == {"ann@x", "bob@x"}

EmployeeData ==
    { Merge([first_name |-> "Ann", last_name |-> "Lee",
             department |-> Some("engineering"), salary |-> 5], m) :
        m \in {NoArgs} \cup [email : Emails] }

EmployeeUpdates == {NoArgs} \cup [email : Emails]

\* Employee(**employee_data): absent columns take the column defaults.
\* updated_at is datetime.now at the INSERT, held as "created", until an
\* UPDATE sets it to a later time, held as "updated".
new_employee(employee_data) ==
    Merge(employee_data,
          [employee_id |-> next_id({e.employee_id : e \in employees}),
           department |-> Null, salary |-> 0, status |-> "Active",
           updated_at |-> "created"])

\* onupdate=datetime.now on Employee.updated_at: the flush emits an UPDATE
\* when an attribute differs from the loaded one, and the UPDATE stamps
\* updated_at unless the call set it.
onupdate(employee, row) ==
    IF row # employee /\ row.updated_at = employee.updated_at
    THEN [row EXCEPT !.updated_at = "updated"]
    ELSE row

\* nullable=False on first_name, last_name and email.
employee_not_null(row) == {"first_name", "last_name", "email"} \subseteq DOMAIN row

email_unique_unchecked(row, others) == TRUE

\* unique=True on Employee.email
email_unique(row, others) == \A e \in others : e.email # row.email

create_employee(employee_data) ==
    LET row == new_employee(employee_data) IN
    /\ IF employee_not_null(row) /\ email_unique(row, employees)
       THEN /\ row.employee_id <= MaxEmployeeId
            /\ employees' = employees \cup {row}
            /\ last' = Returned("create_employee", employee_data, row.employee_id)
       ELSE /\ employees' = employees
            /\ last' = Raised("create_employee", employee_data, "IntegrityError")
    /\ UNCHANGED <<departments, attendance, leaves, payroll, reviews, sessions>>

CreateEmployee == \E employee_data \in EmployeeData : create_employee(employee_data)

get_employee_any(employee_id) == employees

get_employee(employee_id) == {e \in employees : e.employee_id = employee_id}

update_employee(employee_id, employee_data) ==
    LET args == [employee_id |-> employee_id, data |-> employee_data] IN
    /\ IF get_employee(employee_id) # {}
       THEN \E employee \in get_employee(employee_id) :
              LET row == onupdate(employee, setattrs(employee, employee_data)) IN
              IF email_unique(row, employees \ {employee})
              THEN /\ employees' = (employees \ {employee}) \cup {row}
                   /\ last' = Returned("update_employee", args, Some(row.employee_id))
              ELSE /\ employees' = employees
                   /\ last' = Raised("update_employee", args, "IntegrityError")
       ELSE /\ employees' = employees
            /\ last' = Returned("update_employee", args, Null)
    /\ UNCHANGED <<departments, attendance, leaves, payroll, reviews, sessions>>

UpdateEmployee ==
    \E employee_id \in 1..MaxEmployeeId, employee_data \in EmployeeUpdates :
        update_employee(employee_id, employee_data)

owned_kept(table, employee_id) == table

\* cascade="all, delete-orphan" on an Employee relationship: the rows of the
\* table that are left when the employee's own rows are deleted with it.
owned_by_others(table, employee_id) ==
    {r \in table : r.employee_id # employee_id}

\* Employee.reviewed_reviews has no delete cascade: the session sets
\* reviewer_id to NULL on the reviews the employee wrote that are not deleted
\* themselves, and reviewer_id is nullable=False.
reviewed_for_others(employee_id) ==
    {r \in reviews : r.reviewer_id = employee_id /\ r.employee_id # employee_id}

\* database.py opens the SQLite engine without PRAGMA foreign_keys=ON: the
\* ondelete actions of departments.manager_id and leaves.approved_by do not
\* run, and Employee has no relationship to either, so both keep their value.
delete_employee(employee_id) ==
    LET args == [employee_id |-> employee_id] IN
    IF get_employee(employee_id) = {}
    THEN /\ last' = Returned("delete_employee", args, FALSE)
         /\ UNCHANGED <<employees, departments, attendance, leaves, payroll, reviews, sessions>>
    ELSE IF reviewed_for_others(employee_id) # {}
    THEN /\ last' = Raised("delete_employee", args, "IntegrityError")
         /\ UNCHANGED <<employees, departments, attendance, leaves, payroll, reviews, sessions>>
    ELSE /\ employees' = employees \ get_employee(employee_id)
         /\ attendance' = owned_by_others(attendance, employee_id)
         /\ leaves' = owned_by_others(leaves, employee_id)
         /\ payroll' = owned_by_others(payroll, employee_id)
         /\ reviews' = owned_by_others(reviews, employee_id)
         /\ last' = Returned("delete_employee", args, TRUE)
         /\ UNCHANGED <<departments, sessions>>

DeleteEmployee == \E employee_id \in 1..MaxEmployeeId : delete_employee(employee_id)

get_employees_by_department(department) ==
    {e \in employees : ilike(e.department, department)}

full_name(e) == e.first_name \o " " \o e.last_name

(***************************************************************************)
(* DepartmentOperations                                                    *)
(***************************************************************************)
DepartmentNames == {"Engineering", "Sales"}

\* The manager a caller names is an employee stored at the time of the call.
Managers == {Null} \cup {Some(e.employee_id) : e \in employees}

DepartmentData ==
    { Merge([department_name |-> n], m) :
        n \in DepartmentNames, m \in {NoArgs} \cup [manager_id : Managers] }

DepartmentUpdates == [manager_id : Managers] \cup [department_name : DepartmentNames]

\* Department(**department_data): absent columns take the column defaults.
new_department(department_data) ==
    Merge(department_data,
          [department_id |-> next_id({d.department_id : d \in departments}),
           manager_id |-> Null, budget |-> 0])

\* unique=True on Department.department_name
name_unique(row, others) == \A d \in others : d.department_name # row.department_name

create_department(department_data) ==
    LET row == new_department(department_data) IN
    /\ IF name_unique(row, departments)
       THEN /\ row.department_id <= MaxDepartmentId
            /\ departments' = departments \cup {row}
            /\ last' = Returned("create_department", department_data,
                                row.department_id)
       ELSE /\ departments' = departments
            /\ last' = Raised("create_department", department_data,
                              "IntegrityError")
    /\ UNCHANGED <<employees, attendance, leaves, payroll, reviews, sessions>>

CreateDepartment ==
    \E department_data \in DepartmentData : create_department(department_data)

get_department(department_id) ==
    {d \in departments : d.department_id = department_id}

update_department(department_id, department_data) ==
    LET args == [department_id |-> department_id, data |-> department_data] IN
    /\ IF get_department(department_id) # {}
       THEN \E department \in get_department(department_id) :
              LET row == setattrs(department, department_data) IN
              IF name_unique(row, departments \ {department})
              THEN /\ departments' = (departments \ {department}) \cup {row}
                   /\ last' = Returned("update_department", args,
                                       Some(row.department_id))
              ELSE /\ departments' = departments
                   /\ last' = Raised("update_department", args, "IntegrityError")
       ELSE /\ departments' = departments
            /\ last' = Returned("update_department", args, Null)
    /\ UNCHANGED <<employees, attendance, leaves, payroll, reviews, sessions>>

UpdateDepartment ==
    \E department_id \in 1..MaxDepartmentId, department_data \in DepartmentUpdates :
        update_department(department_id, department_data)

delete_department(department_id) ==
    LET args == [department_id |-> department_id] IN
    /\ IF get_department(department_id) # {}
       THEN /\ departments' = departments \ get_department(department_id)
            /\ last' = Returned("delete_department", args, TRUE)
       ELSE /\ departments' = departments
            /\ last' = Returned("delete_department", args, FALSE)
    /\ UNCHANGED <<employees, attendance, leaves, payroll, reviews, sessions>>

DeleteDepartment ==
    \E department_id \in 1..MaxDepartmentId : delete_department(department_id)

\* dept.manager: the employee whose primary key is manager_id, if stored.
manager(dept) == {e \in employees : Some(e.employee_id) = dept.manager_id}

\* A quotient total / count is held as the pair <<total, count>>.
department_entry(dept) ==
    LET members == get_employees_by_department(dept.department_name)
        total_salary == SumOver(members, "salary")
    IN [department_id |-> dept.department_id,
        department_name |-> dept.department_name,
        manager |-> IF manager(dept) # {}
                    THEN full_name(CHOOSE e \in manager(dept) : TRUE)
                    ELSE "Not Assigned",
        employee_count |-> Cardinality(members),
        active_count |-> Cardinality({e \in members : e.status = "Active"}),
        total_salary_budget |-> total_salary,
        average_salary |-> IF members # {}
                           THEN <<total_salary, Cardinality(members)>>
                           ELSE <<0, 1>>,
        budget |-> dept.budget]

get_department_summary_storing ==
    /\ last' = Returned("get_department_summary", NoArgs,
                        {department_entry(dept) : dept \in departments})
    /\ departments' =
           {[dept EXCEPT !.budget = department_entry(dept).total_salary_budget] :
               dept \in departments}
    /\ UNCHANGED <<employees, attendance, leaves, payroll, reviews, sessions>>

get_department_summary ==
    /\ last' = Returned("get_department_summary", NoArgs,
                        {department_entry(dept) : dept \in departments})
    /\ UNCHANGED <<employees, departments, attendance, leaves, payroll, reviews, sessions>>

GetDepartmentSummary == get_department_summary

(***************************************************************************)
(* AttendanceOperations                                                    *)
(***************************************************************************)
AttendanceStatus == {"Present", "Absent", "Late", "Half-day", "Leave"}

AttendanceDates == {date(2023, 12, 1), date(2023, 12, 31)}

MonthDates == AttendanceDates \cup {date(2024, 1, 1)}

HoursValues == {-1, 8}

\* The dicts a caller hands to mark_attendance: the two keys the method reads,
\* and any subset of the other columns.
AttendanceData ==
    { Merge(Merge(k, s), h) :
        k \in [employee_id : EmployeeIds, attendance_date : AttendanceDates],
        s \in {NoArgs} \cup [status : {"Present", "Late"}],
        h \in {NoArgs} \cup [hours_worked : HoursValues] }

\* Dicts naming every status, over dates on both sides of a year's end.
MonthData ==
    [employee_id : EmployeeIds, attendance_date : MonthDates, status : AttendanceStatus]

\* Attendance(**attendance_data): absent columns take the column defaults.
new_attendance(data) ==
    Merge(data, [attendance_id |-> next_id({a.attendance_id : a \in attendance}),
                 hours_worked |-> 0, status |-> "Present"])

\* CheckConstraint('hours_worked >= 0')
check_hours_worked(row) == row.hours_worked >= 0

\* The existence query of mark_attendance.
existing_attendance_nokey(data) ==
    {a \in attendance : a.employee_id = data.employee_id /\ FALSE}

existing_attendance(data) ==
    {a \in attendance : /\ a.employee_id = data.employee_id
                        /\ a.attendance_date = data.attendance_date}

mark_attendance(data) ==
    LET matching == existing_attendance(data) IN
    /\ IF matching # {}
       THEN \E existing \in matching :
              LET row == setattrs(existing, data) IN
              IF check_hours_worked(row)
              THEN /\ attendance' = (attendance \ {existing}) \cup {row}
                   /\ last' = Returned("mark_attendance", data, row.attendance_id)
              ELSE /\ attendance' = attendance
                   /\ last' = Raised("mark_attendance", data, "IntegrityError")
       ELSE LET row == new_attendance(data) IN
            IF check_hours_worked(row)
            THEN /\ row.attendance_id <= MaxAttendance
                 /\ attendance' = attendance \cup {row}
                 /\ last' = Returned("mark_attendance", data, row.attendance_id)
            ELSE /\ attendance' = attendance
                 /\ last' = Raised("mark_attendance", data, "IntegrityError")
    /\ UNCHANGED <<employees, departments, leaves, payroll, reviews, sessions>>

MarkAttendance == \E data \in AttendanceData : mark_attendance(data)

MarkAttendanceMonth == \E data \in MonthData : mark_attendance(data)

get_attendance_by_employee(employee_id, start_date, end_date) ==
    {a \in attendance : /\ a.employee_id = employee_id
                        /\ a.attendance_date >= start_date
                        /\ a.attendance_date <= end_date}

\* sum(1 for r in attendance_records if r.status == status)
count_status(records, status) ==
    Cardinality({r \in records : r.status = status})

month_end_no_rollover(year, month) == date(year, (month % 12) + 1, 1) - 1

\* The last day of the month, as calculate_monthly_summary computes it.
month_end(year, month) ==
    IF month = 12 THEN date(year + 1, 1, 1) - 1
    ELSE date(year, month + 1, 1) - 1

monthly_summary(employee_id, year, month) ==
    LET start_date == date(year, month, 1)
        end_date == month_end(year, month)
        attendance_records ==
            get_attendance_by_employee(employee_id, start_date, end_date)
    IN [total_days |-> Cardinality(attendance_records),
        present_days |-> count_status(attendance_records, "Present"),
        absent_days |-> count_status(attendance_records, "Absent"),
        late_days |-> count_status(attendance_records, "Late"),
        half_days |-> count_status(attendance_records, "Half-day"),
        leave_days |-> count_status(attendance_records, "Leave"),
        total_hours |-> SumOver(attendance_records, "hours_worked")]

SummaryMonths == {<<2023, 11>>, <<2023, 12>>, <<2024, 1>>}

calculate_monthly_summary(employee_id, year, month) ==
    /\ last' = Returned("calculate_monthly_summary",
                        [employee_id |-> employee_id, year |-> year, month |-> month],
                        monthly_summary(employee_id, year, month))
    /\ UNCHANGED <<employees, departments, attendance, leaves, payroll, reviews, sessions>>

CalculateMonthlySummary ==
    \E e \in EmployeeIds, ym \in SummaryMonths :
        calculate_monthly_summary(e, ym[1], ym[2])

(***************************************************************************)
(* LeaveOperations                                                         *)
(***************************************************************************)
LeaveStatus == {"Pending", "Approved", "Rejected", "Cancelled"}

LeaveDays == 1..3

\* The (start_date, end_date) pairs of the leaves applied for.
LeaveRanges == {<<1, 2>>, <<2, 3>>, <<3, 3>>}

LeaveData ==
    { Merge([employee_id |-> e, leave_type |-> "Sick",
             start_date |-> r[1], end_date |-> r[2]], c) :
        e \in EmployeeIds, r \in LeaveRanges,
        c \in {NoArgs} \cup [days_count : {7}] }

with_days_count_setdefault(leave_data) ==
    Merge(leave_data,
          [days_count |-> (leave_data.end_date - leave_data.start_date) + 1])

\* leave_data['days_count'] = (end_date - start_date).days + 1
with_days_count(leave_data) ==
    setattrs(leave_data,
             [days_count |-> (leave_data.end_date - leave_data.start_date) + 1])

\* Leave(**leave_data): absent columns take the column defaults.
new_leave(leave_data) ==
    Merge(leave_data, [leave_id |-> next_id({l.leave_id : l \in leaves}),
                       days_count |-> 1, status |-> "Pending",
                       approved_by |-> Null])

apply_leave(leave_data) ==
    LET leave == new_leave(with_days_count(leave_data)) IN
    /\ leave.leave_id <= MaxLeaves
    /\ leaves' = leaves \cup {leave}
    /\ last' = Returned("apply_leave", leave_data, leave.leave_id)
    /\ UNCHANGED <<employees, departments, attendance, payroll, reviews, sessions>>

ApplyLeave == \E leave_data \in LeaveData : apply_leave(leave_data)

get_leave(leave_id) == {l \in leaves : l.leave_id = leave_id}

\* approved_by is Null when the caller leaves the parameter at its default.
update_leave_status(leave_id, status, approved_by) ==
    LET args == [leave_id |-> leave_id, status |-> status, approved_by |-> approved_by]
    IN
    /\ IF get_leave(leave_id) # {}
       THEN \E leave \in get_leave(leave_id) :
              LET row == [leave EXCEPT !.status = status,
                                       !.approved_by =
                                           IF approved_by # Null THEN approved_by
                                           ELSE leave.approved_by]
              IN /\ leaves' = (leaves \ {leave}) \cup {row}
                 /\ last' = Returned("update_leave_status", args, Some(leave_id))
       ELSE /\ leaves' = leaves
            /\ last' = Returned("update_leave_status", args, Null)
    /\ UNCHANGED <<employees, departments, attendance, payroll, reviews, sessions>>

UpdateLeaveStatus ==
    \E leave_id \in 1..(MaxLeaves + 1), status \in LeaveStatus :
        update_leave_status(leave_id, status, Null)

overlap_filter_strict(leave_start, leave_end, start_date, end_date) ==
    leave_start < end_date /\ leave_end >= start_date

\* The date condition of check_leave_overlap's query: the or_ of its two and_.
overlap_filter(leave_start, leave_end, start_date, end_date) ==
    \/ (leave_start <= end_date /\ leave_end >= start_date)
    \/ (start_date <= leave_end /\ end_date >= leave_start)

overlapping_leaves(employee_id, start_date, end_date) ==
    {l \in leaves :
        /\ l.employee_id = employee_id
        /\ l.status \in {"Pending", "Approved"}
        /\ overlap_filter(l.start_date, l.end_date, start_date, end_date)}

check_leave_overlap(employee_id, start_date, end_date) ==
    /\ last' = Returned("check_leave_overlap",
                        [employee_id |-> employee_id, start_date |-> start_date,
                         end_date |-> end_date],
                        Cardinality(overlapping_leaves(employee_id, start_date,
                                                       end_date)) > 0)
    /\ UNCHANGED <<employees, departments, attendance, leaves, payroll, reviews, sessions>>

CheckLeaveOverlap ==
    \E e \in EmployeeIds, s \in LeaveDays, t \in LeaveDays :
        check_leave_overlap(e, s, t)

(***************************************************************************)
(* PayrollOperations                                                       *)
(***************************************************************************)
PayrollStatus == {"Paid", "Pending", "Processing"}

Amounts ==
    {"basic_salary", "overtime_pay", "bonuses", "deductions", "tax_amount",
     "net_salary"}

PayPeriod == [employee_id |-> 1, pay_period_start |-> 1, pay_period_end |-> 2]

\* The dicts handed to create_payroll: every component given, components
\* left out, a net_salary supplied by the caller, a negative net result, a
\* negative component, and no basic_salary.
PayrollData ==
    { Merge(PayPeriod, d) : d \in
        { [basic_salary |-> 5, overtime_pay |-> 1, bonuses |-> 1,
           deductions |-> 2, tax_amount |-> 1],
          [basic_salary |-> 5],
          [basic_salary |-> 5, deductions |-> 2, net_salary |-> 9],
          [basic_salary |-> 5, bonuses |-> 1, tax_amount |-> 3],
          [basic_salary |-> 1, deductions |-> 2],
          [basic_salary |-> 5, tax_amount |-> -1],
          [overtime_pay |-> 1] } }

\* payroll_data.get(key, 0)
get(data, key, default) == IF key \in DOMAIN data THEN data[key] ELSE default

net_salary_keeps_supplied(payroll_data) ==
    IF "net_salary" \in DOMAIN payroll_data THEN payroll_data.net_salary
    ELSE get(payroll_data, "basic_salary", 0) + get(payroll_data, "overtime_pay", 0)
         + get(payroll_data, "bonuses", 0) - get(payroll_data, "deductions", 0)
         - get(payroll_data, "tax_amount", 0)

\* basic + overtime + bonuses - deductions - tax
net_salary(payroll_data) ==
    get(payroll_data, "basic_salary", 0) + get(payroll_data, "overtime_pay", 0)
    + get(payroll_data, "bonuses", 0) - get(payroll_data, "deductions", 0)
    - get(payroll_data, "tax_amount", 0)

\* Payroll(**payroll_data): absent columns take the column defaults;
\* basic_salary has none.
new_payroll(payroll_data) ==
    Merge(payroll_data, [payroll_id |-> next_id({p.payroll_id : p \in payroll}),
                         overtime_pay |-> 0, bonuses |-> 0, deductions |-> 0,
                         tax_amount |-> 0, payment_date |-> Null,
                         status |-> "Pending"])

\* nullable=False on basic_salary, and the six CheckConstraints of Payroll.
payroll_constraints(row) ==
    /\ "basic_salary" \in DOMAIN row
    /\ \A k \in Amounts : row[k] >= 0

create_payroll(payroll_data) ==
    LET row == new_payroll(setattrs(payroll_data,
                                    [net_salary |-> net_salary(payroll_data)]))
    IN
    /\ IF payroll_constraints(row)
       THEN /\ row.payroll_id <= MaxPayroll
            /\ payroll' = payroll \cup {row}
            /\ last' = Returned("create_payroll", payroll_data, row.payroll_id)
       ELSE /\ payroll' = payroll
            /\ last' = Raised("create_payroll", payroll_data, "IntegrityError")
    /\ UNCHANGED <<employees, departments, attendance, leaves, reviews, sessions>>

CreatePayroll == \E payroll_data \in PayrollData : create_payroll(payroll_data)

get_payroll(payroll_id) == {p \in payroll : p.payroll_id = payroll_id}

\* payment_date is Null when the caller leaves the parameter at its default.
update_payroll_status(payroll_id, status, payment_date) ==
    LET args == [payroll_id |-> payroll_id, status |-> status,
                 payment_date |-> payment_date]
    IN
    /\ IF get_payroll(payroll_id) # {}
       THEN \E p \in get_payroll(payroll_id) :
              LET row == [p EXCEPT !.status = status,
                                   !.payment_date =
                                       IF payment_date # Null THEN payment_date
                                       ELSE p.payment_date]
              IN /\ payroll' = (payroll \ {p}) \cup {row}
                 /\ last' = Returned("update_payroll_status", args, Some(payroll_id))
       ELSE /\ payroll' = payroll
            /\ last' = Returned("update_payroll_status", args, Null)
    /\ UNCHANGED <<employees, departments, attendance, leaves, reviews, sessions>>

UpdatePayrollStatus ==
    \E payroll_id \in 1..(MaxPayroll + 1), status \in PayrollStatus,
       payment_date \in {Null, Some(3)} :
        update_payroll_status(payroll_id, status, payment_date)

(***************************************************************************)
(* PerformanceOperations.  A rating is held in tenths: 45 is 4.5.          *)
(***************************************************************************)
ReviewStatus == {"Completed", "Pending", "Cancelled"}

ReviewData ==
    { Merge([employee_id |-> 1, reviewer_id |-> 2, rating |-> r], c) :
        r \in {0, 10, 45, 50, 51},
        c \in {NoArgs} \cup [status : {"Completed"}] }

\* PerformanceReview(**review_data): absent columns take the column defaults.
new_review(review_data) ==
    Merge(review_data, [review_id |-> next_id({r.review_id : r \in reviews}),
                        status |-> "Pending"])

check_rating_range_open(row) == row.rating <= 50

\* CheckConstraint('rating >= 1 AND rating <= 5')
check_rating_range(row) == row.rating >= 10 /\ row.rating <= 50

create_review(review_data) ==
    LET row == new_review(review_data) IN
    /\ IF check_rating_range(row)
       THEN /\ row.review_id <= MaxReviews
            /\ reviews' = reviews \cup {row}
            /\ last' = Returned("create_review", review_data, row.review_id)
       ELSE /\ reviews' = reviews
            /\ last' = Raised("create_review", review_data, "IntegrityError")
    /\ UNCHANGED <<employees, departments, attendance, leaves, payroll, sessions>>

CreateReview == \E review_data \in ReviewData : create_review(review_data)

(***************************************************************************)
(* Calls that give each employee one record of each owned kind.            *)
(***************************************************************************)
Owns(table, employee_id) == \E r \in table : r.employee_id = employee_id

MarkAttendanceOwned ==
    \E e \in EmployeeIds :
        mark_attendance([employee_id |-> e, attendance_date |-> date(2023, 12, 1)])

ApplyLeaveOwned ==
    \E e \in EmployeeIds :
        /\ ~Owns(leaves, e)
        /\ apply_leave([employee_id |-> e, leave_type |-> "Sick",
                        start_date |-> 1, end_date |-> 2])

\* One leave and one payroll in all, approved and paid by id.
ApplyFirstLeave ==
    /\ leaves = {}
    /\ apply_leave([employee_id |-> 1, leave_type |-> "Sick",
                    start_date |-> 1, end_date |-> 2])

ApproveLeave ==
    \E leave_id \in 1..MaxLeaves : update_leave_status(leave_id, "Approved", Some(2))

CreateFirstPayroll ==
    /\ payroll = {}
    /\ create_payroll([employee_id |-> 1, pay_period_start |-> 1,
                       pay_period_end |-> 2, basic_salary |-> 5])

CreatePayrollOwned ==
    \E e \in EmployeeIds :
        /\ ~Owns(payroll, e)
        /\ create_payroll([employee_id |-> e, pay_period_start |-> 1,
                           pay_period_end |-> 2, basic_salary |-> 5])

PayPayroll ==
    \E payroll_id \in 1..MaxPayroll : update_payroll_status(payroll_id, "Paid", Null)

\* Employee 1 writes every review, its own included.
CreateReviewOwned ==
    \E e \in EmployeeIds :
        /\ ~Owns(reviews, e)
        /\ create_review([employee_id |-> e, reviewer_id |-> 1, rating |-> 30])

CreateFirstDepartment ==
    /\ departments = {}
    /\ CreateDepartment

(***************************************************************************)
(* AttendanceOperations: department summary                                *)
(***************************************************************************)
day_span_exclusive(start_date, end_date) == end_date - start_date

\* (end_date - start_date).days + 1
day_span(start_date, end_date) == (end_date - start_date) + 1

\* summary[key] += sum(1 for r in attendance_records if r.status == status),
\* over the employees of the department.
RECURSIVE total_status(_, _, _, _)
total_status(emps, status, start_date, end_date) ==
    IF emps = {} THEN 0
    ELSE LET employee == CHOOSE e \in emps : TRUE
             attendance_records ==
                 get_attendance_by_employee(employee.employee_id, start_date,
                                            end_date)
         IN count_status(attendance_records, status)
            + total_status(emps \ {employee}, status, start_date, end_date)

\* The returned dict; {} is the empty function.  attendance_rate, the quotient
\* (total_present / total_days) * 100, is held as a pair <<numerator,
\* denominator>>.
attendance_summary_by_department(department, start_date, end_date) ==
    LET emps == get_employees_by_department(department)
        total_present == total_status(emps, "Present", start_date, end_date)
        total_days == Cardinality(emps) * day_span(start_date, end_date)
    IN IF emps = {} THEN NoArgs
       ELSE [department |-> department,
             total_employees |-> Cardinality(emps),
             total_present |-> total_present,
             total_absent |-> total_status(emps, "Absent", start_date, end_date),
             total_late |-> total_status(emps, "Late", start_date, end_date),
             attendance_rate |-> IF total_days > 0
                                 THEN <<total_present * 100, total_days>>
                                 ELSE <<0, 1>>]

get_attendance_summary_by_department(department, start_date, end_date) ==
    /\ last' = Returned("get_attendance_summary_by_department",
                        [department |-> department, start_date |-> start_date,
                         end_date |-> end_date],
                        attendance_summary_by_department(department, start_date,
                                                         end_date))
    /\ UNCHANGED <<employees, departments, attendance, leaves, payroll, reviews, sessions>>

\* Two employees whose department text differs in case or in name.
DeptEmployeeData ==
    {[first_name |-> "Ann", last_name |-> "Lee", email |-> "ann@x",
      department |-> Some("Engineering"), salary |-> 80000]}
    \cup
    {[first_name |-> "Bob", last_name |-> "Ray", email |-> "bob@x",
      department |-> Some(d), salary |-> 60000, status |-> "Inactive"] :
        d \in {"engineering", "Sales"}}

CreateDeptEmployee ==
    \E employee_data \in DeptEmployeeData : create_employee(employee_data)

DeptQueries == {"ENG", "sales", "hr"}

\* Employee 1 on either day, employee 2 on the second day only.
DeptAttendanceData ==
    [employee_id : {1}, attendance_date : 1..2, status : {"Present", "Late"}]
    \cup
    [employee_id : {2}, attendance_date : {2},
     status : {"Present", "Absent", "Leave"}]

MarkAttendanceDept ==
    \E data \in DeptAttendanceData : mark_attendance(data)

\* <<start_date, end_date>>, the last one ending before it starts.
DeptRanges == {<<1, 1>>, <<1, 2>>, <<2, 1>>}

GetAttendanceSummaryByDepartment ==
    \E department \in DeptQueries, range \in DeptRanges :
        get_attendance_summary_by_department(department, range[1], range[2])

(***************************************************************************)
(* PayrollOperations: summaries                                            *)
(***************************************************************************)
MinOf(S) == CHOOSE x \in S : \A y \in S : x <= y

paid_in_period_any_status(p, start_date, end_date) ==
    /\ p.pay_period_start >= start_date
    /\ p.pay_period_end <= end_date

\* Payroll.pay_period_start >= start_date, Payroll.pay_period_end <= end_date,
\* Payroll.status == PayrollStatus.PAID
paid_in_period(p, start_date, end_date) ==
    /\ p.pay_period_start >= start_date
    /\ p.pay_period_end <= end_date
    /\ p.status = "Paid"

\* The dict built from the fetched payrolls; {} is the empty function and
\* average_salary, total_net / len(payrolls), a pair <<numerator, denominator>>.
payroll_summary(payrolls) ==
    IF payrolls = {} THEN NoArgs
    ELSE LET total_net == SumOver(payrolls, "net_salary") IN
         [total_employees |-> Cardinality({p.employee_id : p \in payrolls}),
          total_payrolls |-> Cardinality(payrolls),
          total_net_salary |-> total_net,
          total_basic_salary |-> SumOver(payrolls, "basic_salary"),
          total_overtime_pay |-> SumOver(payrolls, "overtime_pay"),
          total_bonuses |-> SumOver(payrolls, "bonuses"),
          total_deductions |-> SumOver(payrolls, "deductions"),
          total_tax |-> SumOver(payrolls, "tax_amount"),
          average_salary |-> <<total_net, Cardinality(payrolls)>>,
          max_salary |-> MaxOf({p.net_salary : p \in payrolls}),
          min_salary |-> MinOf({p.net_salary : p \in payrolls})]

calculate_payroll_summary(start_date, end_date) ==
    LET payrolls == {p \in payroll : paid_in_period(p, start_date, end_date)} IN
    /\ last' = Returned("calculate_payroll_summary",
                        [start_date |-> start_date, end_date |-> end_date],
                        payroll_summary(payrolls))
    /\ UNCHANGED <<employees, departments, attendance, leaves, payroll, reviews, sessions>>

\* Payrolls of employee 1 over days 1..2 or 2..3 and of employee 2 over days
\* 2..3, with every component or the basic salary alone, Pending or Paid.
PaySummaryData ==
    { Merge(Merge(period, amounts), status) :
        period \in {[employee_id |-> 1, pay_period_start |-> 1, pay_period_end |-> 2],
                    [employee_id |-> 1, pay_period_start |-> 2, pay_period_end |-> 3],
                    [employee_id |-> 2, pay_period_start |-> 2, pay_period_end |-> 3]},
        amounts \in {[basic_salary |-> 5, overtime_pay |-> 1, bonuses |-> 1,
                      deductions |-> 2, tax_amount |-> 1],
                     [basic_salary |-> 7]},
        status \in {NoArgs} \cup [status : {"Paid"}] }

CreatePayrollInPeriod ==
    \E payroll_data \in PaySummaryData : create_payroll(payroll_data)

\* <<start_date, end_date>>
PayRanges == {<<1, 2>>, <<2, 3>>, <<1, 3>>, <<3, 1>>}

CalculatePayrollSummary ==
    \E range \in PayRanges : calculate_payroll_summary(range[1], range[2])

department_payrolls_unscoped(employee_ids, start_date, end_date) ==
    {p \in payroll : paid_in_period(p, start_date, end_date)}

\* Payroll.employee_id.in_(employee_ids) and the three conditions of the
\* period summary
department_payrolls(employee_ids, start_date, end_date) ==
    {p \in payroll : /\ p.employee_id \in employee_ids
                     /\ paid_in_period(p, start_date, end_date)}

\* The department variant: the payrolls of the department's employees only.
department_payroll_summary(department, start_date, end_date) ==
    LET emps == get_employees_by_department(department)
        employee_ids == {e.employee_id : e \in emps}
        payrolls == department_payrolls(employee_ids, start_date, end_date)
        total_net == SumOver(payrolls, "net_salary")
    IN IF emps = {} THEN NoArgs
       ELSE IF payrolls = {} THEN NoArgs
       ELSE [department |-> department,
             total_employees |-> Cardinality(emps),
             employees_paid |-> Cardinality({p.employee_id : p \in payrolls}),
             total_payrolls |-> Cardinality(payrolls),
             total_net_salary |-> total_net,
             average_salary |-> <<total_net, Cardinality(payrolls)>>]

get_department_payroll_summary(department, start_date, end_date) ==
    /\ last' = Returned("get_department_payroll_summary",
                        [department |-> department, start_date |-> start_date,
                         end_date |-> end_date],
                        department_payroll_summary(department, start_date,
                                                   end_date))
    /\ UNCHANGED <<employees, departments, attendance, leaves, payroll, reviews, sessions>>

(***************************************************************************)
(* PerformanceOperations: averages and summaries.  A mean rating is the    *)
(* pair <<sum of ratings in tenths, number of reviews>>; 0.0 is <<0, 1>>.  *)
(***************************************************************************)
completed_reviews(employee_id) ==
    {r \in reviews : r.employee_id = employee_id /\ r.status = "Completed"}

average_rating_unguarded(employee_id) ==
    <<SumOver(completed_reviews(employee_id), "rating"),
      Cardinality(completed_reviews(employee_id))>>

\* float(result) if result else 0.0, result being None over no row
average_rating(employee_id) ==
    LET rows == completed_reviews(employee_id)
        total == SumOver(rows, "rating")
    IN IF rows # {} /\ total # 0 THEN <<total, Cardinality(rows)>> ELSE <<0, 1>>

_get_rating_level_strict(rating) ==
    IF rating[1] > 45 * rating[2] THEN "Excellent"
    ELSE IF rating[1] > 40 * rating[2] THEN "Very Good"
    ELSE IF rating[1] > 30 * rating[2] THEN "Good"
    ELSE IF rating[1] > 20 * rating[2] THEN "Needs Improvement"
    ELSE "Unsatisfactory"

\* rating is a quotient <<n, d>> of tenths: rating >= 4.5 is n >= 45 * d.
_get_rating_level(rating) ==
    IF rating[1] >= 45 * rating[2] THEN "Excellent"
    ELSE IF rating[1] >= 40 * rating[2] THEN "Very Good"
    ELSE IF rating[1] >= 30 * rating[2] THEN "Good"
    ELSE IF rating[1] >= 20 * rating[2] THEN "Needs Improvement"
    ELSE "Unsatisfactory"

\* The private helper called on its own, as get_department_performance calls it.
get_rating_level(rating) ==
    /\ last' = Returned("_get_rating_level", [rating |-> rating],
                        _get_rating_level(rating))
    /\ UNCHANGED <<employees, departments, attendance, leaves, payroll, reviews, sessions>>

get_average_rating(employee_id) ==
    /\ last' = Returned("get_average_rating", [employee_id |-> employee_id],
                        average_rating(employee_id))
    /\ UNCHANGED <<employees, departments, attendance, leaves, payroll, reviews, sessions>>

\* One element of performance_data.
performance_entry(employee) ==
    LET avg_rating == average_rating(employee.employee_id) IN
    [employee_id |-> employee.employee_id,
     name |-> full_name(employee),
     department |-> employee.department,
     avg_rating |-> avg_rating,
     review_count |-> Cardinality(completed_reviews(employee.employee_id)),
     rating_level |-> _get_rating_level(avg_rating)]

\* for employee in employees: ... if review_count > 0: append.  The query has
\* no ORDER BY; SQLite scans the table in primary key order.
RECURSIVE performance_data(_)
performance_data(emps) ==
    IF emps = {} THEN <<>>
    ELSE LET employee ==
                 CHOOSE e \in emps : \A o \in emps : e.employee_id <= o.employee_id
             entry == performance_entry(employee)
         IN (IF entry.review_count > 0 THEN <<entry>> ELSE <<>>)
            \o performance_data(emps \ {employee})

sorts_before_ascending(a, b) ==
    a.avg_rating[1] * b.avg_rating[2] < b.avg_rating[1] * a.avg_rating[2]

\* key=lambda x: x['avg_rating'], reverse=True: a goes ahead of b
sorts_before(a, b) ==
    a.avg_rating[1] * b.avg_rating[2] > b.avg_rating[1] * a.avg_rating[2]

\* list.sort is stable, also under reverse=True: equal keys keep their order.
RECURSIVE sort(_)
sort(data) ==
    IF data = <<>> THEN <<>>
    ELSE LET x == Head(data)
             rest == sort(Tail(data))
             ahead == {i \in 1..Len(rest) : sorts_before(rest[i], x)}
             n == IF ahead = {} THEN 0 ELSE MaxOf(ahead)
         IN SubSeq(rest, 1, n) \o <<x>> \o SubSeq(rest, n + 1, Len(rest))

get_department_performance(department) ==
    /\ last' = Returned("get_department_performance",
                        [department |-> department],
                        sort(performance_data(
                                 get_employees_by_department(department))))
    /\ UNCHANGED <<employees, departments, attendance, leaves, payroll, reviews, sessions>>

every_review == reviews

\* filter(PerformanceReview.status == ReviewStatus.COMPLETED).all()
all_completed_reviews == {r \in reviews : r.status = "Completed"}

overall_performance_summary ==
    LET rows == all_completed_reviews
        between(low, high) ==
            Cardinality({r \in rows : low <= r.rating /\ r.rating < high})
    IN IF rows = {} THEN NoArgs
       ELSE [total_reviews |-> Cardinality(rows),
             avg_rating |-> <<SumOver(rows, "rating"), Cardinality(rows)>>,
             max_rating |-> MaxOf({r.rating : r \in rows}),
             min_rating |-> MinOf({r.rating : r \in rows}),
             rating_distribution |->
                 [excellent |-> Cardinality({r \in rows : r.rating >= 45}),
                  very_good |-> between(40, 45),
                  good |-> between(30, 40),
                  needs_improvement |-> between(20, 30),
                  unsatisfactory |-> Cardinality({r \in rows : r.rating < 20})]]

get_overall_performance_summary ==
    /\ last' = Returned("get_overall_performance_summary", NoArgs,
                        overall_performance_summary)
    /\ UNCHANGED <<employees, departments, attendance, leaves, payroll, reviews, sessions>>

(***************************************************************************)
(* Payrolls of the members of a department.                                *)
(***************************************************************************)
\* Employee 1 is paid every component or the basic salary alone, employee 2
\* the basic salary alone; a payroll is Pending or Paid.
MemberPayrollData ==
    { Merge(Merge([pay_period_start |-> 1, pay_period_end |-> 2], amounts),
            status) :
        amounts \in {[employee_id |-> 1, basic_salary |-> 5, overtime_pay |-> 1,
                      bonuses |-> 1, deductions |-> 2, tax_amount |-> 1],
                     [employee_id |-> 1, basic_salary |-> 7],
                     [employee_id |-> 2, basic_salary |-> 7]},
        status \in {NoArgs} \cup [status : {"Paid"}] }

CreateMemberPayroll ==
    \E payroll_data \in MemberPayrollData : create_payroll(payroll_data)

GetDepartmentPayrollSummary ==
    \E department \in DeptQueries, range \in {<<1, 2>>, <<2, 2>>} :
        get_department_payroll_summary(department, range[1], range[2])

(***************************************************************************)
(* Reviews of one employee over the rating scale.                          *)
(***************************************************************************)
RatedReviewData ==
    { Merge([employee_id |-> 1, reviewer_id |-> 2, rating |-> r], c) :
        r \in {10, 20, 29, 30, 40, 44, 45},
        c \in {NoArgs} \cup [status : {"Completed"}] }

CreateRatedReview ==
    \E review_data \in RatedReviewData : create_review(review_data)

\* Each boundary, a value a hundredth below it, both ends of the scale,
\* 0.0 and a mean of two reviews.
RatingInputs ==
    {<<50, 1>>, <<45, 1>>, <<449, 10>>, <<40, 1>>, <<399, 10>>, <<30, 1>>,
     <<299, 10>>, <<20, 1>>, <<199, 10>>, <<10, 1>>, <<0, 1>>, <<89, 2>>}

GetRatingLevel == \E rating \in RatingInputs : get_rating_level(rating)

(***************************************************************************)
(* Reviews of the members of a department.                                 *)
(***************************************************************************)
MemberReviewData ==
    { Merge([reviewer_id |-> 1], d) : d \in
        {[employee_id |-> 1, rating |-> 40, status |-> "Completed"],
         [employee_id |-> 1, rating |-> 50, status |-> "Completed"],
         [employee_id |-> 1, rating |-> 50],
         [employee_id |-> 2, rating |-> 30, status |-> "Completed"],
         [employee_id |-> 2, rating |-> 45, status |-> "Completed"],
         [employee_id |-> 2, rating |-> 45, status |-> "Cancelled"]} }

CreateMemberReview ==
    \E review_data \in MemberReviewData : create_review(review_data)

GetDepartmentPerformance ==
    \E department \in DeptQueries : get_department_performance(department)

(***************************************************************************)
(* Departments and the employees their names are matched against.          *)
(***************************************************************************)
RollupEmployeeData ==
    {[first_name |-> "Ann", last_name |-> "Lee", email |-> "ann@x",
      department |-> Some("Engineering"), salary |-> 80000],
     [first_name |-> "Bob", last_name |-> "Ray", email |-> "bob@x",
      department |-> Some("engineering"), salary |-> 60000,
      status |-> "Inactive"],
     [first_name |-> "Cy", last_name |-> "Orr", email |-> "cy@x",
      department |-> Some("R&D"), salary |-> 50000]}

CreateRollupEmployee ==
    \E employee_data \in RollupEmployeeData : create_employee(employee_data)

RollupDepartmentNames == {"Engineering", "R_D"}

CreateRollupDepartment ==
    \E name \in RollupDepartmentNames :
        create_department([department_name |-> name])

(***************************************************************************)
(* LeaveOperations: summary by type                                        *)
(***************************************************************************)
LeaveType == {"Sick", "Vacation", "Personal", "Maternity", "Paternity", "Other"}

leave_in_range_overlapping(l, start_date, end_date) ==
    l.start_date <= end_date /\ l.end_date >= start_date

\* Leave.start_date >= start_date, Leave.end_date <= end_date
leave_in_range(l, start_date, end_date) ==
    l.start_date >= start_date /\ l.end_date <= end_date

\* group_by(Leave.leave_type): one key per type that has a selected leave.
leave_summary_by_type(start_date, end_date) ==
    LET rows == {l \in leaves : leave_in_range(l, start_date, end_date)} IN
    [leave_type \in {l.leave_type : l \in rows} |->
        Cardinality({l \in rows : l.leave_type = leave_type})]

get_leave_summary_by_type(start_date, end_date) ==
    /\ last' = Returned("get_leave_summary_by_type",
                        [start_date |-> start_date, end_date |-> end_date],
                        leave_summary_by_type(start_date, end_date))
    /\ UNCHANGED <<employees, departments, attendance, leaves, payroll, reviews, sessions>>

TypedLeaveData ==
    [employee_id : {1}, leave_type : {"Sick", "Vacation"},
     start_date : {1, 2}, end_date : {2, 3}]

ApplyTypedLeave == \E leave_data \in TypedLeaveData : apply_leave(leave_data)

RejectLeave ==
    \E leave_id \in 1..MaxLeaves : update_leave_status(leave_id, "Rejected", Null)

SummaryRanges == {<<1, 2>>, <<2, 3>>, <<1, 3>>, <<2, 2>>}

GetLeaveSummaryByType ==
    \E range \in SummaryRanges : get_leave_summary_by_type(range[1], range[2])

(***************************************************************************)
(* A store of at most one row per table beside the employees, and the      *)
(* aggregations asked of it.                                               *)
(***************************************************************************)
CreateSalesDepartment ==
    /\ departments = {}
    /\ create_department([department_name |-> "Sales"])

MarkOneAttendance ==
    mark_attendance([employee_id |-> 1, attendance_date |-> 1,
                     status |-> "Present"])

CreateOnePayroll ==
    /\ payroll = {}
    /\ \E status \in {NoArgs} \cup [status : {"Paid"}] :
          create_payroll(Merge([employee_id |-> 1, pay_period_start |-> 1,
                                pay_period_end |-> 2, basic_salary |-> 5], status))

CreateOneReview ==
    /\ reviews = {}
    /\ \E status \in {NoArgs} \cup [status : {"Completed"}] :
          create_review(Merge([employee_id |-> 1, reviewer_id |-> 2,
                               rating |-> 45], status))

QueryDepartments == {"ENG", "hr"}

QueryMonthlySummary == calculate_monthly_summary(1, 2023, 1)

QueryAttendanceSummary ==
    \E department \in QueryDepartments :
        get_attendance_summary_by_department(department, 1, 2)

QueryLeaveOverlap == check_leave_overlap(1, 2, 3)

QueryPayrollSummary == calculate_payroll_summary(1, 2)

QueryDepartmentPayrollSummary ==
    \E department \in QueryDepartments :
        get_department_payroll_summary(department, 1, 2)

QueryAverageRating == \E e \in EmployeeIds : get_average_rating(e)

QueryOverallPerformance == get_overall_performance_summary

QueryLeaveSummary == get_leave_summary_by_type(1, 2)

QueryDepartmentPerformance ==
    \E department \in QueryDepartments : get_department_performance(department)

(***************************************************************************)
(* mark_attendance run by two callers, each on a Session of its own: the   *)
(* existence query and the commit are separate steps, and sessions[c]      *)
(* holds what caller c has read so far.                                    *)
(***************************************************************************)
Callers == {"a", "b"}

Idle == [pc |-> "idle", attendance_data |-> NoArgs, existing |-> {},
         result |-> Null, raised |-> FALSE]

\* .first() of a query without ORDER BY: SQLite returns the lowest rowid.
first(rows) ==
    {r \in rows : \A o \in rows : r.attendance_id <= o.attendance_id}

\* self.db.query(models.Attendance).filter(...).first()
query_existing(c, attendance_data) ==
    /\ sessions[c].pc \in {"idle", "returned"}
    /\ sessions' = [sessions EXCEPT ![c] =
                       [pc |-> "queried", attendance_data |-> attendance_data,
                        existing |-> first(existing_attendance(attendance_data)),
                        result |-> Null, raised |-> FALSE]]
    /\ UNCHANGED <<employees, departments, attendance, leaves, payroll, reviews,
                   last>>

\* The UPDATE of a flush names the attributes whose new value differs from
\* the one the session loaded, and addresses the row by primary key.
flush_update(loaded, attendance_data) ==
    LET changed == {k \in DOMAIN attendance_data :
                       k \notin DOMAIN loaded \/ attendance_data[k] # loaded[k]}
        stored == CHOOSE a \in attendance : a.attendance_id = loaded.attendance_id
    IN [k \in DOMAIN stored \cup changed |->
           IF k \in changed THEN attendance_data[k] ELSE stored[k]]

\* The rest of mark_attendance: setattr and commit, or add and commit.
commit_attendance(c) ==
    LET attendance_data == sessions[c].attendance_data
        existing == sessions[c].existing
        row == IF existing # {}
               THEN flush_update(CHOOSE e \in existing : TRUE, attendance_data)
               ELSE new_attendance(attendance_data)
    IN
    /\ sessions[c].pc = "queried"
    /\ IF check_hours_worked(row)
       THEN /\ row.attendance_id <= MaxAttendance
            /\ attendance' =
                   {a \in attendance : a.attendance_id # row.attendance_id}
                       \cup {row}
            /\ last' = Returned("mark_attendance", attendance_data,
                                row.attendance_id)
            /\ sessions' = [sessions EXCEPT ![c].pc = "returned",
                                            ![c].result = Some(row.attendance_id)]
       ELSE /\ attendance' = attendance
            /\ last' = Raised("mark_attendance", attendance_data,
                              "IntegrityError")
            /\ sessions' = [sessions EXCEPT ![c].pc = "returned",
                                            ![c].raised = TRUE]
    /\ UNCHANGED <<employees, departments, leaves, payroll, reviews>>

\* Both callers mark employee 1 on day 1.
RaceData ==
    [employee_id : {1}, attendance_date : {1},
     status : {"Present", "Late", "Absent"}]

QueryExisting ==
    \E c \in Callers, attendance_data \in RaceData :
        query_existing(c, attendance_data)

CommitAttendance == \E c \in Callers : commit_attendance(c)

(***************************************************************************)
(* Partial writes: a few fields of a stored record are named in the call.  *)
(***************************************************************************)
PartialEmployeeUpdates ==
    {[salary |-> 7], [status |-> "Inactive", department |-> Some("Sales")]}

UpdateEmployeePartial ==
    \E employee_id \in EmployeeIds, employee_data \in PartialEmployeeUpdates :
        update_employee(employee_id, employee_data)

CreateNamedDepartment ==
    \E name \in DepartmentNames : create_department([department_name |-> name])

PartialDepartmentUpdates == {[budget |-> 9]}

UpdateDepartmentPartial ==
    \E department_id \in 1..MaxDepartmentId,
       department_data \in PartialDepartmentUpdates :
        update_department(department_id, department_data)

\* Employee 1 on day 1 with the status, the hours or neither, and employee 1
\* on day 2.
PartialAttendanceData ==
    { Merge([employee_id |-> 1, attendance_date |-> 1], d) :
        d \in {NoArgs} \cup [status : {"Late"}] \cup [hours_worked : {8}] }
    \cup {[employee_id |-> 1, attendance_date |-> 2]}

MarkAttendancePartial ==
    \E data \in PartialAttendanceData : mark_attendance(data)

(***************************************************************************)
(* Specifications                                                          *)
(***************************************************************************)
Init ==
    /\ employees = {}
    /\ departments = {}
    /\ attendance = {}
    /\ leaves = {}
    /\ payroll = {}
    /\ reviews = {}
    /\ last = Returned("init", NoArgs, "None")
    /\ sessions = [c \in Callers |-> Idle]

NextAttendance == MarkAttendance

SpecAttendance == Init /\ [][NextAttendance]_vars

NextMonth == MarkAttendanceMonth \/ CalculateMonthlySummary

SpecMonth == Init /\ [][NextMonth]_vars

NextLeave == ApplyLeave \/ UpdateLeaveStatus \/ CheckLeaveOverlap

SpecLeave == Init /\ [][NextLeave]_vars

NextPayroll == CreatePayroll \/ UpdatePayrollStatus

SpecPayroll == Init /\ [][NextPayroll]_vars

NextValidation == CreatePayroll \/ CreateReview

SpecValidation == Init /\ [][NextValidation]_vars

NextCascade ==
    \/ CreateEmployee \/ DeleteEmployee
    \/ MarkAttendanceOwned \/ ApplyLeaveOwned
    \/ CreatePayrollOwned \/ CreateReviewOwned

SpecCascade == Init /\ [][NextCascade]_vars

NextOrg ==
    \/ CreateEmployee \/ UpdateEmployee \/ DeleteEmployee
    \/ CreateDepartment \/ UpdateDepartment \/ DeleteDepartment
    \/ GetDepartmentSummary

SpecOrg == Init /\ [][NextOrg]_vars

NextNotFound ==
    \/ CreateEmployee \/ UpdateEmployee \/ DeleteEmployee
    \/ CreateFirstDepartment \/ UpdateDepartment \/ DeleteDepartment
    \/ ApplyFirstLeave \/ ApproveLeave \/ CreateFirstPayroll \/ PayPayroll

SpecNotFound == Init /\ [][NextNotFound]_vars

(***************************************************************************)
(* Attendance: one record per (employee, day)                              *)
(***************************************************************************)
SameDay(a, b) ==
    a.employee_id = b.employee_id /\ a.attendance_date = b.attendance_date

MarkReturned == last.op = "mark_attendance" /\ ~last.raised

OnePerDay == \A a, b \in attendance : SameDay(a, b) => a = b

\* After a mark that returned, the pair named in the call has exactly one
\* record, the one returned, and it carries every value the call supplied.
MarkedCarriesCall ==
    MarkReturned =>
        LET hits == {a \in attendance : SameDay(a, last.args)} IN
        /\ Cardinality(hits) = 1
        /\ \A a \in hits : /\ a.attendance_id = last.result
                            /\ \A k \in DOMAIN last.args : a[k] = last.args[k]

\* A mark leaves the records of every other (employee, day) pair in place.
MarkKeepsOtherDays ==
    MarkReturned' =>
        \A a \in attendance : ~SameDay(a, last'.args) => a \in attendance'

\* C1: sequential mark_attendance calls keep at most one record per
\* (employee_id, attendance_date); a mark of an existing pair leaves exactly one
\* record for it, carrying the call's values; a mark of another date of the same
\* employee keeps the earlier record, so two distinct records are stored.
C1_OneRecordPerDay ==
    [](OnePerDay /\ MarkedCarriesCall) /\ [][MarkKeepsOtherDays]_vars

\* The oldest record was overwritten in place after a second date of the same
\* employee had been marked.
C1_Witness ==
    /\ MarkReturned
    /\ last.result = 1
    /\ "status" \in DOMAIN last.args /\ last.args.status = "Late"
    /\ \E a, b \in attendance :
          /\ a.attendance_id = 1 /\ b.attendance_id = 2
          /\ a.employee_id = b.employee_id
          /\ a.attendance_date # b.attendance_date
          /\ a.status = "Late" /\ a.hours_worked = 8

(***************************************************************************)
(* Attendance: monthly summary                                             *)
(***************************************************************************)
InMonth(d, year, month) ==
    \E day \in 1..days_in_month(year, month) : d = date(year, month, day)

\* C10: calculate_monthly_summary counts exactly the rows of the employee dated
\* in the month (December included) as total_days, and the five status counts
\* add up to total_days.
C10_MonthlySummaryCounts ==
    last.op = "calculate_monthly_summary" =>
        LET rows == {a \in attendance :
                        /\ a.employee_id = last.args.employee_id
                        /\ InMonth(a.attendance_date, last.args.year, last.args.month)}
            r == last.result
        IN /\ r.total_days = Cardinality(rows)
           /\ r.present_days + r.absent_days + r.late_days + r.half_days
                + r.leave_days = r.total_days

\* A December summary that counts a Leave row and leaves another row out.
C10_Witness ==
    /\ last.op = "calculate_monthly_summary"
    /\ last.args.month = 12
    /\ last.result.total_days = 1
    /\ last.result.leave_days = 1
    /\ Cardinality(attendance) = 2

(***************************************************************************)
(* Leave: overlap                                                          *)
(***************************************************************************)
ActiveLeave(l) == l.status \in {"Pending", "Approved"}

\* C2: no two Pending or Approved leaves of one employee have intersecting
\* inclusive date ranges.
C2_NoOverlappingActiveLeaves ==
    \A a, b \in leaves :
        (/\ a.leave_id # b.leave_id
         /\ a.employee_id = b.employee_id
         /\ ActiveLeave(a) /\ ActiveLeave(b))
        => ~(a.start_date <= b.end_date /\ a.end_date >= b.start_date)

\* C3: check_leave_overlap is true exactly when a Pending or Approved leave of
\* the employee has start <= end_date and end >= start_date, and the date test
\* gives the same answer with the two ranges exchanged.
C3_OverlapCheck ==
    last.op = "check_leave_overlap" =>
        LET q == last.args IN
        /\ last.result =
             (\E l \in leaves : /\ l.employee_id = q.employee_id
                                /\ ActiveLeave(l)
                                /\ l.start_date <= q.end_date
                                /\ l.end_date >= q.start_date)
        /\ \A l \in leaves :
             overlap_filter(l.start_date, l.end_date, q.start_date, q.end_date)
               = overlap_filter(q.start_date, q.end_date, l.start_date, l.end_date)

\* The check answers true for a range that only touches an active leave's last
\* day, while a Rejected leave of the same employee is stored as well.
C3_Witness ==
    /\ last.op = "check_leave_overlap"
    /\ last.result = TRUE
    /\ \E l \in leaves : /\ l.employee_id = last.args.employee_id
                         /\ ActiveLeave(l)
                         /\ l.start_date < last.args.start_date
                         /\ l.end_date = last.args.start_date
    /\ \E l \in leaves : /\ l.employee_id = last.args.employee_id
                         /\ l.status = "Rejected"

(***************************************************************************)
(* Payroll: net salary                                                     *)
(***************************************************************************)
NetOf(p) ==
    p.basic_salary + p.overtime_pay + p.bonuses - p.deductions - p.tax_amount

NetIsSum == \A p \in payroll : p.net_salary = NetOf(p)

\* A created payroll stores each component as supplied, 0 for a component left
\* out, and the computed net in place of any net_salary of the caller.
CreatedFromComponents ==
    (last.op = "create_payroll" /\ ~last.raised) =>
        \E p \in payroll :
            /\ p.payroll_id = last.result
            /\ \A k \in Amounts \ {"net_salary"} :
                 p[k] = (IF k \in DOMAIN last.args THEN last.args[k] ELSE 0)
            /\ p.net_salary = NetOf(p)

StatusUpdateKeepsAmounts ==
    (last'.op = "update_payroll_status") =>
        /\ {p.payroll_id : p \in payroll'} = {p.payroll_id : p \in payroll}
        /\ \A p \in payroll, q \in payroll' :
             p.payroll_id = q.payroll_id => \A k \in Amounts : q[k] = p[k]

\* C4: every stored payroll has net_salary = basic_salary + overtime_pay +
\* bonuses - deductions - tax_amount; create_payroll computes it from the five
\* components (0 for a missing one, overwriting a supplied net_salary) and
\* update_payroll_status changes none of the six amounts.
C4_NetSalary ==
    [](NetIsSum /\ CreatedFromComponents) /\ [][StatusUpdateKeepsAmounts]_vars

\* A payroll created with a caller-supplied net_salary of 9 holds 3, beside
\* another payroll that has since been marked Paid.
C4_Witness ==
    /\ last.op = "create_payroll" /\ ~last.raised
    /\ "net_salary" \in DOMAIN last.args
    /\ \E p \in payroll : p.payroll_id = last.result /\ p.net_salary = 3
    /\ \E p \in payroll : p.status = "Paid" /\ p.net_salary = 4

(***************************************************************************)
(* Constraint violations                                                   *)
(***************************************************************************)
InvalidReview(review_data) == review_data.rating < 10 \/ review_data.rating > 50

InvalidPayroll(payroll_data) ==
    \/ \E k \in DOMAIN payroll_data \cap (Amounts \ {"net_salary"}) :
          payroll_data[k] < 0
    \/ get(payroll_data, "basic_salary", 0) + get(payroll_data, "overtime_pay", 0)
         + get(payroll_data, "bonuses", 0) - get(payroll_data, "deductions", 0)
         - get(payroll_data, "tax_amount", 0) < 0

RejectedCall ==
    \/ last'.op = "create_review" /\ InvalidReview(last'.args)
    \/ last'.op = "create_payroll" /\ InvalidPayroll(last'.args)

\* C8: a create_review with a rating outside [1,5], and a create_payroll with a
\* negative amount or a negative computed net_salary, raise to the caller and
\* leave every table as it was.
C8_ConstraintViolationsPropagate ==
    [][RejectedCall =>
          /\ last'.raised /\ last'.result = "IntegrityError"
          /\ UNCHANGED <<employees, departments, attendance, leaves, payroll,
                         reviews, sessions>>]_vars

\* A rating of 5.1 was refused while a review and a payroll are stored.
C8_Witness ==
    /\ last.op = "create_review" /\ last.raised
    /\ last.args.rating = 51
    /\ reviews # {} /\ payroll # {}

(***************************************************************************)
(* Employees: cascade on delete                                            *)
(***************************************************************************)
DeleteSucceeded ==
    last.op = "delete_employee" /\ ~last.raised /\ last.result = TRUE

OwnedTables == <<attendance, leaves, payroll, reviews>>

NoOwnedLeft ==
    DeleteSucceeded =>
        \A i \in 1..4 : \A r \in OwnedTables[i] :
            r.employee_id # last.args.employee_id

OthersKept ==
    DeleteSucceeded' =>
        \A i \in 1..4 :
            {r \in OwnedTables[i] : r.employee_id # last'.args.employee_id}
              = {r \in OwnedTables'[i] : r.employee_id # last'.args.employee_id}

\* C5: after delete_employee(id) succeeds no attendance, leave, payroll or review
\* record of that employee_id is stored, and the records of the other
\* employees are the ones stored before.
C5_DeleteCascades == [](NoOwnedLeft) /\ [][OthersKept]_vars

\* Employee 2 was deleted with its four records, each of them older than the
\* record employee 1 still holds in the same table.
C5_Witness ==
    /\ DeleteSucceeded
    /\ last.args.employee_id = 2
    /\ \E a \in attendance : a.employee_id = 1 /\ a.attendance_id = 2
    /\ \E l \in leaves : l.employee_id = 1 /\ l.leave_id = 2
    /\ \E p \in payroll : p.employee_id = 1 /\ p.payroll_id = 2
    /\ \E r \in reviews : r.employee_id = 1 /\ r.review_id = 2

(***************************************************************************)
(* Departments: the manager reference                                      *)
(***************************************************************************)
\* C6: a non-null manager_id refers to a stored employee (deleting the manager
\* sets it to null and keeps the department), and get_department_summary
\* reports 'Not Assigned' for a department whose manager is gone.
C6_ManagerReferenceCleared ==
    /\ \A d \in departments :
         d.manager_id # Null =>
            \E e \in employees : d.manager_id = Some(e.employee_id)
    /\ last.op = "get_department_summary" =>
         \A entry \in last.result, d \in departments :
            (entry.department_id = d.department_id
             /\ ~\E e \in employees : d.manager_id = Some(e.employee_id))
            => entry.manager = "Not Assigned"

(***************************************************************************)
(* Employees: unique email                                                 *)
(***************************************************************************)
EmailsDistinct ==
    \A a, b \in employees : a.email = b.email => a.employee_id = b.employee_id

TakenBy(email, others) == \E e \in others : e.email = email

DuplicateRefused ==
    /\ (/\ last'.op = "create_employee"
        /\ "email" \in DOMAIN last'.args
        /\ TakenBy(last'.args.email, employees))
       => (last'.raised /\ employees' = employees)
    /\ (/\ last'.op = "update_employee"
        /\ "email" \in DOMAIN last'.args.data
        /\ \E e \in employees : e.employee_id = last'.args.employee_id
        /\ TakenBy(last'.args.data.email,
                   {e \in employees : e.employee_id # last'.args.employee_id}))
       => (last'.raised /\ employees' = employees)

\* C7: no two stored employees have the same email; a create_employee or
\* update_employee that would give an employee another stored employee's email
\* raises and stores nothing.
C7_EmailUnique == [](EmailsDistinct) /\ [][DuplicateRefused]_vars

\* An update that would have given employee 2 the email of employee 1 raised.
C7_Witness ==
    /\ last.op = "update_employee" /\ last.raised
    /\ last.args.employee_id = 2
    /\ \E a, b \in employees :
          /\ a.employee_id = 1 /\ b.employee_id = 2
          /\ a.email = last.args.data.email /\ b.email # a.email

(***************************************************************************)
(* Operations on an id that is not stored                                  *)
(***************************************************************************)
Stores == <<employees, departments, attendance, leaves, payroll, reviews>>

Ids(table, key) == {r[key] : r \in table}

\* The call recorded in last' was addressed to an id missing from its table.
MissingTarget ==
    \/ /\ last'.op \in {"update_employee", "delete_employee"}
       /\ last'.args.employee_id \notin Ids(employees, "employee_id")
    \/ /\ last'.op \in {"update_department", "delete_department"}
       /\ last'.args.department_id \notin Ids(departments, "department_id")
    \/ /\ last'.op = "update_leave_status"
       /\ last'.args.leave_id \notin Ids(leaves, "leave_id")
    \/ /\ last'.op = "update_payroll_status"
       /\ last'.args.payroll_id \notin Ids(payroll, "payroll_id")

NotFoundChangesNothing ==
    MissingTarget =>
        /\ ~last'.raised
        /\ IF last'.op \in {"delete_employee", "delete_department"}
           THEN last'.result = FALSE
           ELSE last'.result = Null
        /\ Stores' = Stores

DeletedIsMissing ==
    /\ DeleteSucceeded => last.args.employee_id \notin Ids(employees, "employee_id")
    /\ (last.op = "delete_department" /\ last.result = TRUE)
         => last.args.department_id \notin Ids(departments, "department_id")

\* C9: update_employee, update_department, update_leave_status and
\* update_payroll_status on an id that is not stored return the absent value,
\* delete_employee and delete_department return False, and none of them
\* changes a table; an id is not stored once its delete has succeeded, so a
\* second delete of it returns False and changes nothing.
C9_NotFound == [](DeletedIsMissing) /\ [][NotFoundChangesNothing]_vars

\* delete_employee(1) returned False: employee 1 was deleted before, employee 2
\* and a department, a leave and a payroll are stored.
C9_Witness ==
    /\ last.op = "delete_employee" /\ ~last.raised /\ last.result = FALSE
    /\ last.args.employee_id = 1
    /\ Ids(employees, "employee_id") = {2}
    /\ departments # {} /\ leaves # {} /\ payroll # {}

(***************************************************************************)
(* Attendance: department summary                                          *)
(***************************************************************************)
NextDeptAttendance ==
    CreateDeptEmployee \/ MarkAttendanceDept \/ GetAttendanceSummaryByDepartment

SpecDeptAttendance == Init /\ [][NextDeptAttendance]_vars

\* The employees whose department text holds the name, whatever the case.
Members(name) ==
    {e \in employees : \E text \in e.department : contains(lower(text), lower(name))}

\* Two quotients <<n, d>> are the same number.
SameQuotient(q, r) == q[1] * r[2] = r[1] * q[2]

\* C11: get_attendance_summary_by_department returns {} when no employee
\* matches; otherwise it counts the matching employees and their Present,
\* Absent and Late rows dated in [start, end], and attendance_rate is
\* total_present / (total_employees * (end - start + 1)) * 100, or 0.0 when that
\* denominator is not positive.
C11_DepartmentAttendanceSummary ==
    last.op = "get_attendance_summary_by_department" =>
        LET q == last.args
            r == last.result
            ids == {e.employee_id : e \in Members(q.department)}
            rows(status) ==
                {a \in attendance : /\ a.employee_id \in ids
                                    /\ a.attendance_date >= q.start_date
                                    /\ a.attendance_date <= q.end_date
                                    /\ a.status = status}
            denominator == Cardinality(ids) * (q.end_date - q.start_date + 1)
        IN /\ ~last.raised
           /\ IF ids = {} THEN r = NoArgs
              ELSE /\ r.total_employees = Cardinality(ids)
                   /\ r.total_present = Cardinality(rows("Present"))
                   /\ r.total_absent = Cardinality(rows("Absent"))
                   /\ r.total_late = Cardinality(rows("Late"))
                   /\ IF denominator > 0
                      THEN SameQuotient(r.attendance_rate,
                                        <<Cardinality(rows("Present")) * 100,
                                          denominator>>)
                      ELSE r.attendance_rate = <<0, 1>>

\* Two matching employees over two days with one Present row: a rate of 25.
C11_Witness ==
    /\ last.op = "get_attendance_summary_by_department"
    /\ last.result # NoArgs
    /\ last.result.total_employees = 2
    /\ last.result.total_present = 1
    /\ last.result.attendance_rate = <<100, 4>>
    /\ Cardinality(attendance) = 2

(***************************************************************************)
(* Payroll: summary of a period                                            *)
(***************************************************************************)
NextPayrollSummary == CreatePayrollInPeriod \/ CalculatePayrollSummary

SpecPayrollSummary == Init /\ [][NextPayrollSummary]_vars

\* The Paid payrolls of a table whose period lies inside [start, end].
PaidWithin(table, start_date, end_date) ==
    {p \in table : /\ p.status = "Paid"
                   /\ p.pay_period_start >= start_date
                   /\ p.pay_period_end <= end_date}

\* C12: calculate_payroll_summary reduces exactly the Paid payrolls whose
\* period lies inside [start, end]: total_payrolls is their number,
\* total_employees the number of distinct employee ids, each total the sum of
\* its column, average_salary is total_net_salary / total_payrolls and
\* min_salary <= average_salary <= max_salary.
C12_PayrollSummary ==
    last.op = "calculate_payroll_summary" =>
        LET r == last.result
            sel == PaidWithin(payroll, last.args.start_date, last.args.end_date)
            nets == {p.net_salary : p \in sel}
        IN sel # {} =>
             /\ r.total_payrolls = Cardinality(sel)
             /\ r.total_employees = Cardinality({p.employee_id : p \in sel})
             /\ r.total_net_salary = SumOver(sel, "net_salary")
             /\ r.total_basic_salary = SumOver(sel, "basic_salary")
             /\ r.total_overtime_pay = SumOver(sel, "overtime_pay")
             /\ r.total_bonuses = SumOver(sel, "bonuses")
             /\ r.total_deductions = SumOver(sel, "deductions")
             /\ r.total_tax = SumOver(sel, "tax_amount")
             /\ SameQuotient(r.average_salary,
                             <<r.total_net_salary, r.total_payrolls>>)
             /\ r.min_salary \in nets /\ r.max_salary \in nets
             /\ \A n \in nets : r.min_salary <= n /\ n <= r.max_salary
             /\ r.min_salary * r.average_salary[2] <= r.average_salary[1]
             /\ r.average_salary[1] <= r.max_salary * r.average_salary[2]

\* Two Paid payrolls of different employees and net amounts are summarised.
C12_Witness ==
    /\ last.op = "calculate_payroll_summary"
    /\ last.result # NoArgs
    /\ last.result.total_payrolls = 2
    /\ last.result.total_employees = 2
    /\ last.result.min_salary < last.result.max_salary
    /\ Cardinality(payroll) = 2

(***************************************************************************)
(* Aggregations over a small store                                         *)
(***************************************************************************)
NextQueries ==
    \/ CreateDeptEmployee
    \/ CreateSalesDepartment
    \/ MarkOneAttendance
    \/ ApplyFirstLeave
    \/ CreateOnePayroll
    \/ CreateOneReview
    \/ QueryMonthlySummary
    \/ QueryAttendanceSummary
    \/ QueryLeaveOverlap
    \/ QueryPayrollSummary
    \/ QueryDepartmentPayrollSummary
    \/ QueryAverageRating
    \/ QueryOverallPerformance
    \/ QueryLeaveSummary
    \/ QueryDepartmentPerformance
    \/ GetDepartmentSummary

SpecQueries == Init /\ [][NextQueries]_vars

\* C13: an aggregation over no input returns its sentinel and does not
\* raise: {} from the two payroll summaries when no Paid payroll matches, {}
\* from the overall performance summary when no review is Completed, 0.0 from
\* get_average_rating for an employee without a Completed review, and a count,
\* total and average of 0 in get_department_summary for a department that no
\* employee matches.
C13_EmptyInputSentinels ==
    /\ last.op = "calculate_payroll_summary"
         => /\ ~last.raised
            /\ PaidWithin(payroll, last.args.start_date, last.args.end_date) = {}
                 => last.result = NoArgs
    /\ last.op = "get_department_payroll_summary"
         => LET ids == {e.employee_id : e \in Members(last.args.department)}
                own == {p \in payroll : p.employee_id \in ids}
            IN /\ ~last.raised
               /\ PaidWithin(own, last.args.start_date, last.args.end_date) = {}
                    => last.result = NoArgs
    /\ last.op = "get_overall_performance_summary"
         => /\ ~last.raised
            /\ (\A r \in reviews : r.status # "Completed") => last.result = NoArgs
    /\ last.op = "get_average_rating"
         => /\ ~last.raised
            /\ (\A r \in reviews : r.employee_id = last.args.employee_id
                                     => r.status # "Completed")
                 => last.result = <<0, 1>>
    /\ last.op = "get_department_summary"
         => /\ ~last.raised
            /\ \A entry \in last.result :
                 Members(entry.department_name) = {}
                   => /\ entry.employee_count = 0
                      /\ entry.total_salary_budget = 0
                      /\ entry.average_salary = <<0, 1>>

\* The department has a member with a payroll that is not Paid, and the
\* department payroll summary is {}.
C13_Witness ==
    /\ last.op = "get_department_payroll_summary"
    /\ last.result = NoArgs
    /\ \E e \in Members(last.args.department) :
         \E p \in payroll : p.employee_id = e.employee_id /\ p.status # "Paid"

(***************************************************************************)
(* Payroll: summary of a department                                        *)
(***************************************************************************)
NextDeptPayroll ==
    CreateDeptEmployee \/ CreateMemberPayroll \/ GetDepartmentPayrollSummary

SpecDeptPayroll == Init /\ [][NextDeptPayroll]_vars

\* What calculate_payroll_summary returns over a store that holds only the
\* payrolls of the employees matching the department.
RestrictedSummary(department, start_date, end_date) ==
    LET ids == {e.employee_id : e \in Members(department)}
        own == {p \in payroll : p.employee_id \in ids}
    IN payroll_summary({p \in own : paid_in_period(p, start_date, end_date)})

\* C14 as stated: on the keys total_employees, total_payrolls,
\* total_net_salary and average_salary, get_department_payroll_summary agrees
\* with calculate_payroll_summary over the payrolls of the matching employees,
\* total_employees being the number of distinct employees among the matching
\* Paid payrolls.
C14_SharedKeysEqual ==
    (last.op = "get_department_payroll_summary" /\ last.result # NoArgs) =>
        LET r == last.result
            whole == RestrictedSummary(last.args.department, last.args.start_date,
                                       last.args.end_date)
        IN /\ whole # NoArgs
           /\ r.total_employees = whole.total_employees
           /\ r.total_payrolls = whole.total_payrolls
           /\ r.total_net_salary = whole.total_net_salary
           /\ SameQuotient(r.average_salary, whole.average_salary)

\* C14 amended: get_department_payroll_summary is {} exactly when the period
\* summary over the matching employees' payrolls is {}; otherwise
\* total_payrolls, total_net_salary and average_salary are equal, the number of
\* distinct paid employees is under employees_paid, and total_employees is the
\* number of employees whose department matches, paid or not.
C14_DepartmentPayrollSummary ==
    last.op = "get_department_payroll_summary" =>
        LET r == last.result
            whole == RestrictedSummary(last.args.department, last.args.start_date,
                                       last.args.end_date)
        IN IF whole = NoArgs THEN r = NoArgs
           ELSE /\ r # NoArgs
                /\ r.total_payrolls = whole.total_payrolls
                /\ r.total_net_salary = whole.total_net_salary
                /\ SameQuotient(r.average_salary, whole.average_salary)
                /\ r.employees_paid = whole.total_employees
                /\ r.total_employees =
                       Cardinality(Members(last.args.department))

\* Two employees match the department and one of them has a Paid payroll.
C14_Witness ==
    /\ last.op = "get_department_payroll_summary"
    /\ last.result # NoArgs
    /\ last.result.total_employees = 2
    /\ last.result.employees_paid = 1
    /\ Cardinality(payroll) = 2

(***************************************************************************)
(* Performance: rating levels and the overall summary                      *)
(***************************************************************************)
NextRatings ==
    \/ CreateRatedReview
    \/ GetRatingLevel
    \/ QueryAverageRating
    \/ QueryOverallPerformance

SpecRatings == Init /\ [][NextRatings]_vars

\* The quotient q lies in [low, high), both in tenths.
Within(q, low, high) == low * q[2] <= q[1] /\ q[1] < high * q[2]

\* level is the label of the quotient q.
LabelIs(level, q) ==
    /\ level = "Excellent" <=> q[1] >= 45 * q[2]
    /\ level = "Very Good" <=> Within(q, 40, 45)
    /\ level = "Good" <=> Within(q, 30, 40)
    /\ level = "Needs Improvement" <=> Within(q, 20, 30)
    /\ level = "Unsatisfactory" <=> q[1] < 20 * q[2]

\* C15: _get_rating_level labels a rating at or above 4.5 Excellent, in
\* [4.0, 4.5) Very Good, in [3.0, 4.0) Good, in [2.0, 3.0) Needs Improvement
\* and below 2.0 Unsatisfactory, the lower boundary of each range belonging
\* to it.
C15_RatingLevel ==
    last.op = "_get_rating_level" => LabelIs(last.result, last.args.rating)

\* Exactly 4.5 has been labelled Excellent.
C15_Witness ==
    /\ last.op = "_get_rating_level"
    /\ last.args.rating = <<45, 1>>
    /\ last.result = "Excellent"

\* The bucket of the distribution a rating in tenths belongs to.
BucketOf(rating) ==
    IF rating >= 45 THEN "excellent"
    ELSE IF rating >= 40 THEN "very_good"
    ELSE IF rating >= 30 THEN "good"
    ELSE IF rating >= 20 THEN "needs_improvement"
    ELSE "unsatisfactory"

Buckets ==
    {"excellent", "very_good", "good", "needs_improvement", "unsatisfactory"}

RECURSIVE SumOfBuckets(_, _)
SumOfBuckets(distribution, names) ==
    IF names = {} THEN 0
    ELSE LET b == CHOOSE b \in names : TRUE
         IN distribution[b] + SumOfBuckets(distribution, names \ {b})

\* C17: get_overall_performance_summary counts the Completed reviews only;
\* each of them is counted in the one bucket its rating belongs to, so the
\* five buckets sum to total_reviews, and min_rating <= avg_rating <=
\* max_rating.
C17_OverallSummary ==
    last.op = "get_overall_performance_summary" =>
        LET r == last.result
            done == {x \in reviews : x.status = "Completed"}
        IN IF done = {} THEN r = NoArgs
           ELSE /\ r.total_reviews = Cardinality(done)
                /\ DOMAIN r.rating_distribution = Buckets
                /\ \A b \in Buckets :
                     r.rating_distribution[b] =
                         Cardinality({x \in done : BucketOf(x.rating) = b})
                /\ SumOfBuckets(r.rating_distribution, Buckets) = r.total_reviews
                /\ SameQuotient(r.avg_rating,
                                <<SumOver(done, "rating"), Cardinality(done)>>)
                /\ \A x \in done : r.min_rating <= x.rating
                                   /\ x.rating <= r.max_rating
                /\ r.min_rating * r.avg_rating[2] <= r.avg_rating[1]
                /\ r.avg_rating[1] <= r.max_rating * r.avg_rating[2]

\* One Completed review of 4.4 is counted as very_good while a review that
\* is not Completed is stored beside it.
C17_Witness ==
    /\ last.op = "get_overall_performance_summary"
    /\ last.result # NoArgs
    /\ last.result.total_reviews = 1
    /\ last.result.rating_distribution.very_good = 1
    /\ \E x \in reviews : x.status # "Completed"

(***************************************************************************)
(* Performance: ranking of a department                                    *)
(***************************************************************************)
NextDeptPerformance ==
    CreateDeptEmployee \/ CreateMemberReview \/ GetDepartmentPerformance

SpecDeptPerformance == Init /\ [][NextDeptPerformance]_vars

Completed(employee_id) ==
    {r \in reviews : r.employee_id = employee_id /\ r.status = "Completed"}

\* C16: get_department_performance returns one entry for each employee whose
\* department matches and who has a Completed review, and none for the others;
\* an entry carries the mean of the employee's Completed ratings, their number
\* and the label of that mean, and the entries are in order of non-increasing
\* mean.
C16_DepartmentPerformance ==
    last.op = "get_department_performance" =>
        LET data == last.result
            ranked == {e \in Members(last.args.department) :
                          Completed(e.employee_id) # {}}
        IN /\ Len(data) = Cardinality(ranked)
           /\ {data[i].employee_id : i \in 1..Len(data)}
                  = {e.employee_id : e \in ranked}
           /\ \A i \in 1..Len(data) :
                LET done == Completed(data[i].employee_id) IN
                /\ data[i].review_count = Cardinality(done)
                /\ SameQuotient(data[i].avg_rating,
                                <<SumOver(done, "rating"), Cardinality(done)>>)
                /\ LabelIs(data[i].rating_level, data[i].avg_rating)
           /\ \A i, j \in 1..Len(data) :
                i < j => data[i].avg_rating[1] * data[j].avg_rating[2]
                             >= data[j].avg_rating[1] * data[i].avg_rating[2]

\* Employee 2, with the higher mean, is listed ahead of employee 1.
C16_Witness ==
    /\ last.op = "get_department_performance"
    /\ Len(last.result) = 2
    /\ last.result[1].employee_id = 2
    /\ last.result[2].employee_id = 1
    /\ last.result[1].avg_rating # last.result[2].avg_rating

(***************************************************************************)
(* Departments: summary                                                    *)
(***************************************************************************)
NextRollup ==
    CreateRollupEmployee \/ CreateRollupDepartment \/ GetDepartmentSummary

SpecRollup == Init /\ [][NextRollup]_vars

\* C18: get_department_summary returns one entry per stored department; its
\* members are exactly the employees whose department text contains the
\* department's name as a case-insensitive substring, employee_count is their
\* number, active_count the number of Active ones, total_salary_budget the sum
\* of their salaries and average_salary that sum over employee_count.
C18_DepartmentSummary ==
    last.op = "get_department_summary" =>
        /\ Cardinality(last.result) = Cardinality(departments)
        /\ \A dept \in departments :
             \E entry \in last.result :
                LET members == Members(dept.department_name) IN
                /\ entry.department_id = dept.department_id
                /\ entry.department_name = dept.department_name
                /\ entry.employee_count = Cardinality(members)
                /\ entry.active_count =
                       Cardinality({e \in members : e.status = "Active"})
                /\ entry.total_salary_budget = SumOver(members, "salary")
                /\ members # {} =>
                       SameQuotient(entry.average_salary,
                                    <<SumOver(members, "salary"),
                                      Cardinality(members)>>)

(***************************************************************************)
(* Leaves: summary by type                                                 *)
(***************************************************************************)
NextLeaveSummary == ApplyTypedLeave \/ RejectLeave \/ GetLeaveSummaryByType

SpecLeaveSummary == Init /\ [][NextLeaveSummary]_vars

\* The leaves lying wholly inside [start, end].
Contained(start_date, end_date) ==
    {l \in leaves : l.start_date >= start_date /\ l.end_date <= end_date}

\* The leaves sharing a day with [start, end] without lying inside it.
PartlyInside(start_date, end_date) ==
    {l \in leaves : l.start_date <= end_date /\ l.end_date >= start_date}
        \ Contained(start_date, end_date)

CountOf(summary, leave_type) ==
    IF leave_type \in DOMAIN summary THEN summary[leave_type] ELSE 0

RECURSIVE SumOfCounts(_, _)
SumOfCounts(summary, types) ==
    IF types = {} THEN 0
    ELSE LET t == CHOOSE t \in types : TRUE
         IN summary[t] + SumOfCounts(summary, types \ {t})

\* C19: get_leave_summary_by_type counts, per leave type, exactly the leaves
\* with start_date >= start and end_date <= end, whatever their status; a leave
\* that only partly intersects the range is not counted, although
\* check_leave_overlap's query selects it for the same range while it is
\* Pending or Approved; the counts add up to the number of contained leaves.
C19_LeaveSummaryByType ==
    last.op = "get_leave_summary_by_type" =>
        LET r == last.result
            q == last.args
            inside == Contained(q.start_date, q.end_date)
        IN /\ DOMAIN r \subseteq LeaveType
           /\ \A t \in LeaveType :
                CountOf(r, t) = Cardinality({l \in inside : l.leave_type = t})
           /\ SumOfCounts(r, DOMAIN r) = Cardinality(inside)
           /\ \A l \in PartlyInside(q.start_date, q.end_date) :
                l.status \in {"Pending", "Approved"}
                  => l \in overlapping_leaves(l.employee_id, q.start_date,
                                               q.end_date)

\* A Rejected leave inside the range is counted while a Pending leave
\* reaching past the range is left out.
C19_Witness ==
    /\ last.op = "get_leave_summary_by_type"
    /\ \E l \in PartlyInside(last.args.start_date, last.args.end_date) :
         l.status = "Pending"
    /\ \E l \in Contained(last.args.start_date, last.args.end_date) :
         l.status = "Rejected" /\ last.result[l.leave_type] = 1

(***************************************************************************)
(* Aggregations leave the store alone                                      *)
(***************************************************************************)
Aggregations ==
    {"calculate_monthly_summary", "get_attendance_summary_by_department",
     "check_leave_overlap", "get_leave_summary_by_type",
     "calculate_payroll_summary", "get_department_payroll_summary",
     "get_average_rating", "get_department_performance",
     "get_overall_performance_summary", "get_department_summary"}

AggregationKeepsStore ==
    last'.op \in Aggregations =>
        /\ Stores' = Stores
        /\ (last.op = last'.op /\ last.args = last'.args)
             => last'.result = last.result

\* C20: no aggregation or lookup changes the store, and the same aggregation
\* asked again of the unchanged store gives the same result.
C20_AggregationsChangeNothing == [][AggregationKeepsStore]_vars

\* The ranking of a department has been computed over a store that holds
\* an employee, a department, a payroll, a leave, an attendance row and a
\* Completed review.
C20_Witness ==
    /\ last.op = "get_department_performance"
    /\ Len(last.result) = 1
    /\ \A table \in {employees, departments, attendance, leaves, payroll, reviews} :
         table # {}

(***************************************************************************)
(* Leaves: days_count                                                      *)
(***************************************************************************)
InclusiveDays(l) == (l.end_date - l.start_date) + 1

\* A step of update_leave_status leaves the dates and days_count of every
\* leave as they were.
StatusUpdateKeepsDays ==
    last'.op = "update_leave_status" =>
        /\ {l.leave_id : l \in leaves'} = {l.leave_id : l \in leaves}
        /\ \A l \in leaves : \E m \in leaves' :
             /\ m.leave_id = l.leave_id
             /\ m.start_date = l.start_date
             /\ m.end_date = l.end_date
             /\ m.days_count = l.days_count

\* C21: every stored leave has days_count = (end_date - start_date) + 1 after
\* any sequence of apply_leave and update_leave_status: apply_leave computes
\* it over whatever the caller supplied, and update_leave_status changes
\* neither the dates nor days_count.
C21_DaysCount ==
    /\ [](\A l \in leaves : l.days_count = InclusiveDays(l))
    /\ [][StatusUpdateKeepsDays]_vars

\* A leave applied for with days_count 7 is stored with the computed count
\* beside a leave whose status has been updated.
C21_Witness ==
    /\ last.op = "apply_leave"
    /\ "days_count" \in DOMAIN last.args
    /\ \E l \in leaves : /\ l.leave_id = last.result
                         /\ l.days_count = InclusiveDays(l)
                         /\ l.days_count # last.args.days_count
    /\ \E l \in leaves : l.status = "Approved"

(***************************************************************************)
(* Attendance: two callers on one day                                      *)
(***************************************************************************)
NextRace == QueryExisting \/ CommitAttendance

SpecRace == Init /\ [][NextRace]_vars

\* Every caller has returned from its call.
AllReturned == \A c \in Callers : sessions[c].pc = "returned"

\* C22: when the mark_attendance calls of two callers for one (employee_id,
\* attendance_date) interleave, the store ends with exactly one record for the
\* pair, holding the values of the call that committed last, and neither
\* caller is given an error.
C22_LastWriterWins ==
    AllReturned =>
        /\ \A c \in Callers : ~sessions[c].raised
        /\ \E a \in attendance :
             /\ SameDay(a, last.args)
             /\ \A b \in attendance : SameDay(b, last.args) => b = a
             /\ \A k \in DOMAIN last.args : a[k] = last.args[k]

(***************************************************************************)
(* Partial writes                                                          *)
(***************************************************************************)
NextPartial ==
    \/ CreateDeptEmployee \/ UpdateEmployeePartial
    \/ CreateNamedDepartment \/ UpdateDepartmentPartial
    \/ MarkAttendancePartial

SpecPartial == Init /\ [][NextPartial]_vars

\* after is before with the values of data written over it: the named fields
\* hold the call's values and every field outside data and exempt is as it was.
Overwritten(before, after, data, exempt) ==
    /\ DOMAIN after = DOMAIN before \cup DOMAIN data
    /\ \A k \in DOMAIN data : after[k] = data[k]
    /\ \A k \in DOMAIN before \ (DOMAIN data \cup exempt) : after[k] = before[k]

\* The step wrote the record of table whose key column holds id, and no
\* other record of the table.
WroteOnly(table, tableNext, key, id, data, exempt) ==
    /\ {r \in tableNext : r[key] # id} = {r \in table : r[key] # id}
    /\ \A before \in {r \in table : r[key] = id} :
         \E after \in tableNext :
            /\ after[key] = before[key]
            /\ Overwritten(before, after, data, exempt)
    /\ Cardinality({r \in tableNext : r[key] = id}) = 1

\* The call recorded in last' found its target and returned it.
Updated(op) == last'.op = op /\ ~last'.raised /\ last'.result # Null

\* The mark recorded in last' found a record of its (employee, day).
MarkHitExisting ==
    /\ last'.op = "mark_attendance" /\ ~last'.raised
    /\ \E a \in attendance : SameDay(a, last'.args)

PartialWrite(employee_exempt) ==
    /\ Updated("update_employee") =>
         /\ WroteOnly(employees, employees', "employee_id",
                      last'.args.employee_id, last'.args.data, employee_exempt)
         /\ UNCHANGED <<departments, attendance, leaves, payroll, reviews>>
    /\ Updated("update_department") =>
         /\ WroteOnly(departments, departments', "department_id",
                      last'.args.department_id, last'.args.data, {})
         /\ UNCHANGED <<employees, attendance, leaves, payroll, reviews>>
    /\ MarkHitExisting =>
         /\ WroteOnly(attendance, attendance', "attendance_id",
                      last'.result, last'.args, {})
         /\ \E a \in attendance :
              SameDay(a, last'.args) /\ a.attendance_id = last'.result
         /\ UNCHANGED <<employees, departments, leaves, payroll, reviews>>

\* C23 as stated: a partial write overwrites the fields named in the call and
\* leaves every other field of the target record and every other record
\* unchanged, for update_employee, update_department and a mark_attendance
\* that hits an existing (employee, date) record, which keeps its
\* attendance_id.
C23_PartialWriteKeepsTheRest == [][PartialWrite({})]_vars

\* An update of an employee that changes a value also stamps updated_at.
UpdateStampsTime ==
    Updated("update_employee") =>
        \A before \in {e \in employees : e.employee_id = last'.args.employee_id} :
          \A after \in {e \in employees' : e.employee_id = before.employee_id} :
            after.updated_at =
                IF \E k \in DOMAIN last'.args.data :
                       last'.args.data[k] # before[k]
                THEN "updated" ELSE before.updated_at

\* C23 amended: as stated for update_department and mark_attendance; an
\* update_employee leaves every field outside the call unchanged except
\* updated_at, which is set to the time of the update when a named value
\* differs from the stored one.
C23_PartialWrite == [][PartialWrite({"updated_at"}) /\ UpdateStampsTime]_vars

\* The second mark of a day named only the hours: the record keeps its id
\* and the status of the first mark, beside the record of another day.
C23_Witness ==
    /\ last.op = "mark_attendance" /\ ~last.raised
    /\ DOMAIN last.args = {"employee_id", "attendance_date", "hours_worked"}
    /\ \E a \in attendance : /\ a.attendance_id = last.result
                             /\ SameDay(a, last.args)
                             /\ a.status = "Late"
                             /\ a.hours_worked = 8
    /\ Cardinality(attendance) = 2
    /\ \E e \in employees : e.updated_at = "updated"
    /\ \E d \in departments : d.budget = 9

(***************************************************************************)
(* Attendance: the rate of a department                                    *)
(***************************************************************************)
\* The rate the department summary would report, when it reports one.
RateInBounds(department, start_date, end_date) ==
    LET summary == attendance_summary_by_department(department, start_date,
                                                    end_date)
    IN summary # NoArgs =>
         /\ summary.attendance_rate[2] > 0
         /\ summary.attendance_rate[1] >= 0
         /\ summary.attendance_rate[1] <= 100 * summary.attendance_rate[2]

\* C24: in every store reached by sequential mark_attendance calls, for every
\* department and every range with start <= end, the attendance_rate of
\* get_attendance_summary_by_department lies between 0 and 100 inclusive.
C24_RateBetween0And100 ==
    \A department \in DeptQueries, start_date \in 1..2, end_date \in 1..2 :
        start_date <= end_date => RateInBounds(department, start_date, end_date)

\* The one matching employee is Present on both days of the range: the rate
\* returned is 100.
C24_Witness ==
    /\ last.op = "get_attendance_summary_by_department"
    /\ last.result # NoArgs
    /\ last.args.start_date < last.args.end_date
    /\ last.result.total_present = 2
    /\ last.result.attendance_rate[1] = 100 * last.result.attendance_rate[2]

=============================================================================
